---- MODULE Spec2Model ----
(***************************************************************************)
(* Model of the hyprswitch daemon's command handlers                       *)
(* (src/src/daemon/handle_fns.rs): init, switch and close running          *)
(* concurrently, one handler per caller, over the shared state             *)
(* `latest` (a Mutex), the process-wide ACTIVE flag, the submap            *)
(* (keybinding resource), the hand-off channel `send` and the              *)
(* acknowledgement channel `receive`.                                      *)
(***************************************************************************)
EXTENDS Integers, Sequences, FiniteSets, TLC

\* ---------------------------------------------------------------- bounds
NumCallers == 2      \* concurrent command handlers
MaxCmds == 3         \* commands issued in one behaviour
MaxExecs == 3        \* longest launch list
MaxStep == 2         \* largest command.offset
ChanCap == 1         \* capacity of the bounded hand-off channel

\* u16 arithmetic of `selected` (handle_fns.rs:20-22)
U16Mod == 65536

Callers == 1..NumCallers
NoOne == 0

\* Option<T>: None is the empty sequence, Some(v) a one-element sequence
None == <<>>
Some(v) == <<v>>
IsSome(o) == Len(o) = 1
Unwrap(o) == o[1]

Min(a, b) == IF a < b THEN a ELSE b
Max(a, b) == IF a > b THEN a ELSE b

\* ------------------------------------------------------------ data values
SwitchTypes == {"Client", "Workspace", "Monitor"}
Unknown == [tag |-> "Unknown", id |-> 0]
MkActive(t, i) == [tag |-> t, id |-> i]

\* identities the compositor can report in each dimension
Ids(t) == CASE t = "Client" -> {41, 42}
            [] t = "Workspace" -> {7, 8}
            [] t = "Monitor" -> {1, 2}

GuiConfigs == {"g1"}
Snapshots == {"d1"}

\* the launchable programs a launch list is drawn from (run, path, terminal)
Programs == << <<"a", "/a", FALSE>>, <<"b", "/b", TRUE>>, <<"c", "/c", FALSE>>,
               <<"d", "/d", TRUE>> >>
ExecLists == {SubSeq(Programs, 1, n) : n \in 0..MaxExecs}

VARIABLES
    latest,     \* the Mutex-guarded shared data
    lock,       \* holder of the `latest` mutex, NoOne when free
    ACTIVE,     \* the process-wide "overlay is open" flag
    submap,     \* TRUE while the keybinding submap is active
    chan,       \* hand-off channel: <<GUISend, client_id, command number>>
    acks,       \* acknowledgement channel: number of bare acknowledgements
    gui_open,   \* FALSE once the overlay actor has ended and closed the channels
    pc,         \* pc[c]: position of caller c's handler
    cmd,        \* cmd[c]: the command caller c's handler was given
    loc,        \* loc[c]: the handler's local variables
    res,        \* res[c]: "none" while running, then "ok" or "err"
    log,        \* log[c]: the effects the handler has performed, in order
    applied,    \* applied[c]: the overlay actor applied c's own event
    ncmds,      \* commands issued so far
    entered     \* the selection stored when launcher sub-mode was entered

vars == <<latest, lock, ACTIVE, submap, chan, acks, gui_open, pc, cmd, loc, res,
          log, applied, ncmds, entered>>

shared == <<latest, lock, ACTIVE, submap, chan, acks, gui_open>>

\* ----------------------------------------------------------- local state
NoCmd == [kind |-> "none", id |-> 0, reverse |-> FALSE, offset |-> 0,
          kill |-> FALSE, switch_type |-> "Client", gui_config |-> "g1"]
NoLoc == [exec_len |-> 0, sel |-> None, active |-> Unknown, data |-> "d0",
          triple |-> <<None, None, None>>]

\* ----------------------------------------------------------------- mutex
\* a lock that excludes no one
CanLockAny(c) == TRUE

\* latest.lock(): blocks until the mutex is free
CanLock(c) == lock = NoOne

\* ---------------------------------------------------------------- effects
Did(c, e) == \E i \in 1..Len(log[c]) : log[c][i] = e
DidTag(c, t) == \E i \in 1..Len(log[c]) : log[c][i][1] = t
Count(c, t) == Cardinality({i \in 1..Len(log[c]) : log[c][i][1] = t})

Finish(c, r) ==
    /\ pc' = [pc EXCEPT ![c] = "idle"]
    /\ res' = [res EXCEPT ![c] = r]
    /\ loc' = [loc EXCEPT ![c] = NoLoc]

Goto(c, p) ==
    /\ pc' = [pc EXCEPT ![c] = p]
    /\ UNCHANGED res

Init ==
    /\ latest = [active |-> Unknown, selected |-> None, execs |-> <<>>,
                 simple_config |-> "Client", gui_config |-> "g0",
                 hypr_data |-> "d0"]
    /\ lock = NoOne
    /\ ACTIVE = FALSE
    /\ submap = FALSE
    /\ chan = <<>>
    /\ acks = 0
    /\ gui_open = TRUE
    /\ pc = [c \in Callers |-> "idle"]
    /\ cmd = [c \in Callers |-> NoCmd]
    /\ loc = [c \in Callers |-> NoLoc]
    /\ res = [c \in Callers |-> "none"]
    /\ log = [c \in Callers |-> <<>>]
    /\ applied = [c \in Callers |-> FALSE]
    /\ ncmds = 0
    /\ entered = None

\* what collect_data can report as currently active: (client, workspace, monitor)
Triples == {<<a, w, m>> : a \in {None, Some(42)}, w \in {None, Some(7)},
                          m \in {None, Some(1)}}

\* a projection that reads the client component whatever the switch type
ProjectFirst(switch_type, active) ==
    IF IsSome(active[1]) THEN MkActive(switch_type, Unwrap(active[1]))
    ELSE Unknown

\* the match on config.switch_type (handle_fns.rs:93-115)
ProjectActive(switch_type, active) ==
    CASE switch_type = "Client" ->
            IF IsSome(active[1]) THEN MkActive("Client", Unwrap(active[1]))
            ELSE Unknown
      [] switch_type = "Workspace" ->
            IF IsSome(active[2]) THEN MkActive("Workspace", Unwrap(active[2]))
            ELSE Unknown
      [] switch_type = "Monitor" ->
            IF IsSome(active[3]) THEN MkActive("Monitor", Unwrap(active[3]))
            ELSE Unknown

\* ------------------------------------------------------ command delivery
Issue(c, command, first) ==
    /\ pc[c] = "idle"
    /\ ncmds < MaxCmds
    /\ ncmds' = ncmds + 1
    /\ cmd' = [cmd EXCEPT ![c] = [command EXCEPT !.id = cmd[c].id + 1]]
    /\ pc' = [pc EXCEPT ![c] = first]
    /\ log' = [log EXCEPT ![c] = <<>>]
    /\ applied' = [applied EXCEPT ![c] = FALSE]
    /\ UNCHANGED <<shared, entered>>

IssueSwitch(c, Revs, Offsets) ==
    \E r \in Revs, o \in Offsets :
        /\ Issue(c, [NoCmd EXCEPT !.kind = "switch", !.reverse = r,
                                  !.offset = o], "s_lock")
        /\ res' = [res EXCEPT ![c] = "none"]
        /\ UNCHANGED loc

IssueClose(c, Kills) ==
    \E k \in Kills :
        /\ Issue(c, [NoCmd EXCEPT !.kind = "close", !.kill = k], "c_commit")
        /\ res' = [res EXCEPT ![c] = "none"]
        /\ UNCHANGED loc

\* init's first statements (handle_fns.rs:90-115) touch nothing shared:
\* collect_data and the projection of what it reports as active
IssueInit(c, Types, Actives) ==
    \E st \in Types, g \in GuiConfigs, d \in Snapshots, t \in Actives :
        /\ Issue(c, [NoCmd EXCEPT !.kind = "init", !.switch_type = st,
                                  !.gui_config = g], "i_store")
        /\ res' = [res EXCEPT ![c] = "none"]
        /\ loc' = [loc EXCEPT ![c] = [NoLoc EXCEPT !.data = d, !.triple = t,
                                         !.active = ProjectActive(st, t)]]

\* a failed init that closes the session on its way out
IssueInitFailResets(c, Types) ==
    \E st \in Types, g \in GuiConfigs :
        /\ pc[c] = "idle"
        /\ ncmds < MaxCmds
        /\ ncmds' = ncmds + 1
        /\ cmd' = [cmd EXCEPT ![c] = [NoCmd EXCEPT !.kind = "init",
                        !.switch_type = st, !.gui_config = g,
                        !.id = cmd[c].id + 1]]
        /\ log' = [log EXCEPT ![c] = <<>>]
        /\ applied' = [applied EXCEPT ![c] = FALSE]
        /\ ACTIVE' = FALSE
        /\ Finish(c, "err")
        /\ UNCHANGED <<latest, lock, submap, chan, acks, gui_open, entered>>

\* collect_data(..)? returns its error to the caller
IssueInitFail(c, Types) ==
    \E st \in Types, g \in GuiConfigs :
        /\ Issue(c, [NoCmd EXCEPT !.kind = "init", !.switch_type = st,
                                  !.gui_config = g], "idle")
        /\ res' = [res EXCEPT ![c] = "err"]
        /\ loc' = [loc EXCEPT ![c] = NoLoc]

\* ------------------------------------------------- taking and dropping
Lock(c) ==
    /\ CanLock(c)
    /\ lock' = c

\* a guard that is never dropped: the handler goes on holding the mutex
KeepLock(c) == lock' = c

\* drop(lock), or the guard going out of scope on an early return
Unlock(c) == lock' = NoOne

Logged(c, e) == log' = [log EXCEPT ![c] = Append(@, e)]

\* ------------------------------------------------------------- hand-off
\* send.send_blocking((kind, UpdateCause::Client(client_id))): blocks while the
\* channel is full, fails once the receiving end is closed
Send(c, kind, next) ==
    /\ gui_open
    /\ Len(chan) < ChanCap
    /\ chan' = Append(chan, <<kind, c, cmd[c].id>>)
    /\ Logged(c, <<"sent", kind>>)
    /\ Goto(c, next)
    /\ UNCHANGED <<latest, lock, ACTIVE, submap, acks, gui_open, cmd, loc, applied,
                   ncmds, entered>>

SendFail(c) ==
    /\ ~gui_open
    /\ Finish(c, "err")
    /\ UNCHANGED <<shared, cmd, log, applied, ncmds, entered>>

\* a receive that does not wait for an acknowledgement
RecvNoWait(c) ==
    /\ acks' = IF acks > 0 THEN acks - 1 ELSE 0
    /\ UNCHANGED <<latest, lock, ACTIVE, submap, chan, gui_open, cmd, applied,
                   ncmds, entered>>

\* a receive that waits for two acknowledgements
RecvTwoAcks(c) ==
    /\ acks > 1
    /\ acks' = acks - 2
    /\ UNCHANGED <<latest, lock, ACTIVE, submap, chan, gui_open, cmd, applied,
                   ncmds, entered>>

\* receive.recv_blocking(): takes one acknowledgement, blocks while there is
\* none, fails once the channel is empty and closed
RecvAck(c) ==
    /\ acks > 0
    /\ acks' = acks - 1
    /\ UNCHANGED <<latest, lock, ACTIVE, submap, chan, gui_open, cmd, applied,
                   ncmds, entered>>

RecvFail(c) ==
    /\ acks = 0
    /\ ~gui_open
    /\ Finish(c, "err")
    /\ UNCHANGED <<shared, cmd, log, applied, ncmds, entered>>

\* ---------------------------------------------------------------- switch
SaturatingSub(a, b) == IF a < b THEN 0 ELSE a - b

\* the index without saturation and without the upper clamp
SwitchIndexNoClamp(selected, reverse, offset, exec_len) ==
    IF reverse
    THEN (selected + U16Mod - offset) % U16Mod
    ELSE (selected + offset) % U16Mod

\* the new launcher index (handle_fns.rs:19-23), in u16

SwitchIndex(selected, reverse, offset, exec_len) ==
    IF reverse
    THEN SaturatingSub(selected, offset % U16Mod)
    ELSE Min((selected + (offset % U16Mod)) % U16Mod,
             (exec_len - 1) % U16Mod)

\* what find_next can return for a switch type
FindNextResults(st) == {MkActive(st, i) : i \in Ids(st)}

SwitchLock(c) ==
    /\ pc[c] = "s_lock"
    /\ Lock(c)
    /\ loc' = [loc EXCEPT ![c].exec_len = Len(latest.execs),
                          ![c].sel = latest.selected]
    /\ Goto(c, "s_write")
    /\ UNCHANGED <<latest, ACTIVE, submap, chan, acks, gui_open, cmd, log,
                   applied, ncmds, entered>>

\* without the early return the handler goes on to its hand-off
SwitchEmptyHandsOff(c) ==
    /\ pc[c] = "s_write"
    /\ IsSome(loc[c].sel)
    /\ loc[c].exec_len = 0
    /\ Unlock(c)
    /\ Goto(c, "s_send")
    /\ UNCHANGED <<latest, ACTIVE, submap, chan, acks, gui_open, cmd, loc, log,
                   applied, ncmds, entered>>

\* `if exec_len == 0 { return Ok(()) }` (handle_fns.rs:16-18)
SwitchEmpty(c) ==
    /\ pc[c] = "s_write"
    /\ IsSome(loc[c].sel)
    /\ loc[c].exec_len = 0
    /\ Unlock(c)
    /\ Finish(c, "ok")
    /\ UNCHANGED <<latest, ACTIVE, submap, chan, acks, gui_open, cmd, log,
                   applied, ncmds, entered>>

\* a switch that moves the launcher index and navigates `active` as well
SwitchLauncherNavigates(c) ==
    /\ pc[c] = "s_write"
    /\ IsSome(loc[c].sel)
    /\ loc[c].exec_len # 0
    /\ \E a \in FindNextResults(latest.simple_config) :
        latest' = [latest EXCEPT !.active = a, !.selected =
            Some(SwitchIndex(Unwrap(loc[c].sel), cmd[c].reverse,
                             cmd[c].offset, loc[c].exec_len))]
    /\ Unlock(c)
    /\ Logged(c, <<"index", Unwrap(loc[c].sel), Unwrap(latest'.selected)>>)
    /\ Goto(c, "s_send")
    /\ loc' = [loc EXCEPT ![c] = NoLoc]
    /\ UNCHANGED <<ACTIVE, submap, chan, acks, gui_open, cmd, applied, ncmds,
                   entered>>

SwitchLauncher(c) ==
    /\ pc[c] = "s_write"
    /\ IsSome(loc[c].sel)
    /\ loc[c].exec_len # 0
    /\ latest' = [latest EXCEPT !.selected =
            Some(SwitchIndex(Unwrap(loc[c].sel), cmd[c].reverse,
                             cmd[c].offset, loc[c].exec_len))]
    /\ Unlock(c)
    /\ Logged(c, <<"index", Unwrap(loc[c].sel), Unwrap(latest'.selected)>>)
    /\ Goto(c, "s_send")
    /\ loc' = [loc EXCEPT ![c] = NoLoc]
    /\ UNCHANGED <<ACTIVE, submap, chan, acks, gui_open, cmd, applied, ncmds,
                   entered>>

SwitchNavigate(c) ==
    /\ pc[c] = "s_write"
    /\ ~IsSome(loc[c].sel)
    /\ \E a \in FindNextResults(latest.simple_config) :
        /\ latest' = [latest EXCEPT !.active = a]
        /\ Logged(c, <<"find_next", a>>)
    /\ Unlock(c)
    /\ Goto(c, "s_send")
    /\ loc' = [loc EXCEPT ![c] = NoLoc]
    /\ UNCHANGED <<ACTIVE, submap, chan, acks, gui_open, cmd, applied, ncmds, entered>>

SwitchNavigateFail(c) ==
    /\ pc[c] = "s_write"
    /\ ~IsSome(loc[c].sel)
    /\ Logged(c, <<"find_next_err">>)
    /\ Unlock(c)
    /\ Finish(c, "err")
    /\ UNCHANGED <<latest, ACTIVE, submap, chan, acks, gui_open, cmd, applied,
                   ncmds, entered>>

SwitchSend(c) ==
    /\ pc[c] = "s_send"
    /\ Send(c, "Refresh", "s_recv")

SwitchSendFail(c) ==
    /\ pc[c] = "s_send"
    /\ SendFail(c)

SwitchRecv(c) ==
    /\ pc[c] = "s_recv"
    /\ RecvAck(c)
    /\ Logged(c, <<"acked">>)
    /\ Finish(c, "ok")

SwitchRecvFail(c) ==
    /\ pc[c] = "s_recv"
    /\ RecvFail(c)

\* ----------------------------------------------------------------- close
\* the effects of the `if !kill { .. } else { .. }` block when nothing fails
CommitEffects(kill) ==
    IF kill
    THEN << <<"info">> >>
    ELSE IF IsSome(latest.selected)
         THEN IF Unwrap(latest.selected) < Len(latest.execs)
              THEN << <<"run_program",
                        latest.execs[Unwrap(latest.selected) + 1]>> >>
              ELSE << <<"warn">> >>
         ELSE << <<"switch_to_active", latest.active>> >>

\* a close that also leaves launcher sub-mode: it clears the selection
CloseCommitClears(c) ==
    /\ pc[c] = "c_commit"
    /\ CanLock(c)
    /\ log' = [log EXCEPT ![c] = @ \o CommitEffects(cmd[c].kill)]
    /\ latest' = [latest EXCEPT !.selected = None]
    /\ Unlock(c)
    /\ Goto(c, "c_submap")
    /\ UNCHANGED <<ACTIVE, submap, chan, acks, gui_open, cmd, loc,
                   applied, ncmds, entered>>

\* the block holding the mutex (handle_fns.rs:48-64): lock, commit, drop
CloseCommit(c) ==
    /\ pc[c] = "c_commit"
    /\ CanLock(c)
    /\ log' = [log EXCEPT ![c] = @ \o CommitEffects(cmd[c].kill)]
    /\ Unlock(c)
    /\ Goto(c, "c_submap")
    /\ UNCHANGED <<latest, ACTIVE, submap, chan, acks, gui_open, cmd, loc,
                   applied, ncmds, entered>>

\* switch_to_active(..)? returns its error to the caller
CloseCommitFail(c) ==
    /\ pc[c] = "c_commit"
    /\ CanLock(c)
    /\ ~cmd[c].kill
    /\ ~IsSome(latest.selected)
    /\ Logged(c, <<"switch_to_active", latest.active>>)
    /\ Unlock(c)
    /\ Finish(c, "err")
    /\ UNCHANGED <<latest, ACTIVE, submap, chan, acks, gui_open, cmd, applied,
                   ncmds, entered>>

CloseSubmap(c) ==
    /\ pc[c] = "c_submap"
    /\ submap' = FALSE
    /\ Logged(c, <<"deactivate_submap">>)
    /\ Goto(c, "c_flag")
    /\ UNCHANGED <<latest, lock, ACTIVE, chan, acks, gui_open, cmd, loc,
                   applied, ncmds, entered>>

\* deactivate_submap()? returns its error to the caller
CloseSubmapFail(c) ==
    /\ pc[c] = "c_submap"
    /\ Logged(c, <<"deactivate_submap_err">>)
    /\ Finish(c, "err")
    /\ UNCHANGED <<shared, cmd, applied, ncmds, entered>>

CloseFlag(c) ==
    /\ pc[c] = "c_flag"
    /\ ACTIVE' = FALSE
    /\ Logged(c, <<"ACTIVE", FALSE>>)
    /\ Goto(c, "c_send")
    /\ UNCHANGED <<latest, lock, submap, chan, acks, gui_open, cmd, loc,
                   applied, ncmds, entered>>

CloseSend(c) ==
    /\ pc[c] = "c_send"
    /\ Send(c, "Hide", "c_recv")

CloseSendFail(c) ==
    /\ pc[c] = "c_send"
    /\ SendFail(c)

\* the acknowledgement, then clear_recent_clients() and reload_desktop_maps()
CloseRecv(c) ==
    /\ pc[c] = "c_recv"
    /\ RecvAck(c)
    /\ log' = [log EXCEPT ![c] = @ \o << <<"acked">>, <<"clear_recent_clients">>,
                                        <<"reload_desktop_maps">> >>]
    /\ Finish(c, "ok")

CloseRecvFail(c) ==
    /\ pc[c] = "c_recv"
    /\ RecvFail(c)

\* ------------------------------------------------------------------ init
\* the fields init assigns (handle_fns.rs:121-124)
Store(c) ==
    [latest EXCEPT !.active = loc[c].active,
                   !.simple_config = cmd[c].switch_type,
                   !.gui_config = cmd[c].gui_config,
                   !.hypr_data = loc[c].data]

\* the block holding the mutex (handle_fns.rs:118-126): lock, assign, drop
InitStore(c) ==
    /\ pc[c] = "i_store"
    /\ CanLock(c)
    /\ latest' = Store(c)
    /\ Logged(c, <<"store">>)
    /\ Unlock(c)
    /\ Goto(c, "i_submap")
    /\ loc' = [loc EXCEPT ![c] = NoLoc]
    /\ UNCHANGED <<ACTIVE, submap, chan, acks, gui_open, cmd, applied,
                   ncmds, entered>>

InitSubmap(c) ==
    /\ pc[c] = "i_submap"
    /\ submap' = TRUE
    /\ Logged(c, <<"activate_submap">>)
    /\ Goto(c, "i_flag")
    /\ UNCHANGED <<latest, lock, ACTIVE, chan, acks, gui_open, cmd, loc,
                   applied, ncmds, entered>>

\* activate_submap(..)? returns its error to the caller
InitSubmapFail(c) ==
    /\ pc[c] = "i_submap"
    /\ Logged(c, <<"activate_submap_err">>)
    /\ Finish(c, "err")
    /\ UNCHANGED <<shared, cmd, applied, ncmds, entered>>

InitFlag(c) ==
    /\ pc[c] = "i_flag"
    /\ ACTIVE' = TRUE
    /\ Logged(c, <<"ACTIVE", TRUE>>)
    /\ Goto(c, "i_send")
    /\ UNCHANGED <<latest, lock, submap, chan, acks, gui_open, cmd, loc,
                   applied, ncmds, entered>>

InitSend(c) ==
    /\ pc[c] = "i_send"
    /\ Send(c, "New", "i_recv")

InitSendFail(c) ==
    /\ pc[c] = "i_send"
    /\ SendFail(c)

InitRecv(c) ==
    /\ pc[c] = "i_recv"
    /\ RecvAck(c)
    /\ Logged(c, <<"acked">>)
    /\ Finish(c, "ok")

InitRecvFail(c) ==
    /\ pc[c] = "i_recv"
    /\ RecvFail(c)

\* ---------------------------------------------------------- overlay actor
\* takes the next event off the hand-off channel, renders from `latest`
\* (read under the mutex), then sends the bare acknowledgement
GuiHandle ==
    /\ gui_open
    /\ chan # <<>>
    /\ lock = NoOne
    /\ chan' = Tail(chan)
    /\ applied' = [c \in Callers |->
            IF c = Head(chan)[2] /\ cmd[c].id = Head(chan)[3]
            THEN TRUE ELSE applied[c]]
    /\ acks' = acks + 1
    /\ UNCHANGED <<latest, lock, ACTIVE, submap, gui_open, pc, cmd, loc, res,
                   log, ncmds, entered>>

\* the selections a launch list admits: an index into it, or index 0 of an
\* empty list
LauncherSelections(execs) ==
    {Some(i) : i \in 0..Max(Len(execs) - 1, 0)}

\* the overlay enters launcher sub-mode: it stores the launch list and a
\* selection in it
LauncherEnter ==
    /\ gui_open
    /\ lock = NoOne
    /\ ~IsSome(latest.selected)
    /\ \E e \in ExecLists : \E s \in LauncherSelections(e) :
        /\ latest' = [latest EXCEPT !.execs = e, !.selected = s]
        /\ entered' = s
    /\ UNCHANGED <<lock, ACTIVE, submap, chan, acks, gui_open, pc, cmd, loc,
                   res, log, applied, ncmds>>

\* the overlay actor ends: both channels are closed
GuiClose ==
    /\ gui_open
    /\ gui_open' = FALSE
    /\ UNCHANGED <<latest, lock, ACTIVE, submap, chan, acks, pc, cmd, loc, res,
                   log, applied, ncmds, entered>>

\* ------------------------------------------------------------ next state
SwitchStep(c) ==
    \/ SwitchLock(c) \/ SwitchEmpty(c) \/ SwitchLauncher(c)
    \/ SwitchNavigate(c) \/ SwitchSend(c) \/ SwitchRecv(c)

CloseStep(c) ==
    \/ CloseCommit(c) \/ CloseSubmap(c) \/ CloseFlag(c)
    \/ CloseSend(c) \/ CloseRecv(c)

InitStep(c) ==
    \/ InitStore(c) \/ InitSubmap(c) \/ InitFlag(c)
    \/ InitSend(c) \/ InitRecv(c)

HandOffFail(c) ==
    \/ SwitchSendFail(c) \/ SwitchRecvFail(c)
    \/ CloseSendFail(c) \/ CloseRecvFail(c)
    \/ InitSendFail(c) \/ InitRecvFail(c)

CollaboratorFail(c) ==
    \/ SwitchNavigateFail(c) \/ CloseCommitFail(c) \/ CloseSubmapFail(c)
    \/ InitSubmapFail(c)

\* One caller delivering commands one after another, every input, every
\* failure of a collaborator or of the hand-off.
Next ==
    \/ IssueInit(1, SwitchTypes, Triples)
    \/ IssueInitFail(1, SwitchTypes)
    \/ IssueSwitch(1, BOOLEAN, 1..MaxStep)
    \/ IssueClose(1, BOOLEAN)
    \/ SwitchStep(1)
    \/ CloseStep(1)
    \/ InitStep(1)
    \/ CollaboratorFail(1)
    \/ HandOffFail(1)
    \/ GuiHandle
    \/ LauncherEnter
    \/ GuiClose

Spec == Init /\ [][Next]_vars

\* Concurrent callers: each is a short-lived process that delivers one
\* command; callers are interchangeable, so they arrive in the order of
\* their ids.
Once(c) ==
    /\ cmd[c].kind = "none"
    /\ \A d \in Callers : d < c => cmd[d].kind # "none"

ClientOnly == {<<Some(42), None, None>>}

\* Concurrent switches, in and out of launcher sub-mode; no collaborator
\* fails and the overlay actor never ends.
NextSwitch ==
    \/ \E c \in Callers : Once(c) /\ IssueSwitch(c, BOOLEAN, {1})
    \/ \E c \in Callers : SwitchStep(c)
    \/ GuiHandle
    \/ LauncherEnter

SpecSwitch == Init /\ [][NextSwitch]_vars

\* Concurrent callers outside launcher sub-mode, with an overlay actor that
\* may end and close both channels.
NextHandOff ==
    \/ \E c \in Callers : Once(c) /\ IssueInit(c, {"Client"}, ClientOnly)
    \/ \E c \in Callers : Once(c) /\ IssueSwitch(c, {FALSE}, {1})
    \/ \E c \in Callers : Once(c) /\ IssueClose(c, BOOLEAN)
    \/ \E c \in Callers : SwitchLock(c)
    \/ \E c \in Callers : SwitchNavigate(c)
    \/ \E c \in Callers : SwitchSend(c)
    \/ \E c \in Callers : SwitchRecv(c)
    \/ \E c \in Callers : CloseStep(c)
    \/ \E c \in Callers : InitStep(c)
    \/ \E c \in Callers : HandOffFail(c)
    \/ GuiHandle
    \/ GuiClose

SpecHandOff == Init /\ [][NextHandOff]_vars

\* Concurrent callers outside launcher sub-mode, with no collaborator failing
\* and an overlay actor that never ends. Every handler is a thread the scheduler keeps running, and
\* the overlay actor's loop keeps receiving: weak fairness on each.
NextLive ==
    \/ \E c \in Callers : Once(c) /\ IssueInit(c, {"Client"}, ClientOnly)
    \/ \E c \in Callers : Once(c) /\ IssueSwitch(c, {FALSE}, {1})
    \/ \E c \in Callers : Once(c) /\ IssueClose(c, {FALSE})
    \/ \E c \in Callers : SwitchLock(c)
    \/ \E c \in Callers : SwitchNavigate(c)
    \/ \E c \in Callers : SwitchSend(c)
    \/ \E c \in Callers : SwitchRecv(c)
    \/ \E c \in Callers : CloseStep(c)
    \/ \E c \in Callers : InitStep(c)
    \/ GuiHandle

HandlerStep(c) == SwitchStep(c) \/ CloseStep(c) \/ InitStep(c)

SpecLive ==
    /\ Init
    /\ [][NextLive]_vars
    /\ WF_vars(GuiHandle)
    /\ \A c \in Callers : WF_vars(HandlerStep(c))

\* ------------------------------------------------------------ properties
Returned(c) == pc[c] = "idle" /\ res[c] # "none"
IsCmd(c, k) == cmd[c].kind = k

\* the teardown of close: submap released, flag cleared, Hide handed off
TornDown(c) ==
    /\ Did(c, <<"deactivate_submap">>)
    /\ Did(c, <<"ACTIVE", FALSE>>)
    /\ Did(c, <<"sent", "Hide">>)

\* C1: every Close that has returned, with success or with an error, has
\* released the keybinding, cleared the "overlay is open" flag and handed
\* Hide to the overlay actor. (One caller: nothing else touches the flag or
\* the submap before the next command.)
C1_CloseAlwaysTearsDown ==
    \A c \in Callers :
        (IsCmd(c, "close") /\ Returned(c)) =>
            (TornDown(c) /\ ~submap /\ ~ACTIVE)

\* the event a command hands off
EventOf(k) == CASE k = "init" -> "New"
                [] k = "switch" -> "Refresh"
                [] k = "close" -> "Hide"
                [] OTHER -> "none"

\* the command got as far as its hand-off step
ReachedHandOff(c) ==
    \/ DidTag(c, "ACTIVE")
    \/ DidTag(c, "find_next")
    \/ DidTag(c, "index")

InHandOff(c) == pc[c] \in {"s_send", "s_recv", "c_send", "c_recv",
                           "i_send", "i_recv"}

RECURSIVE SumOver(_, _)
SumOver(S, t) ==
    IF S = {} THEN 0
    ELSE LET c == CHOOSE x \in S : TRUE
         IN Count(c, t) + SumOver(S \ {c}, t)

C3_AckIsForOwnEvent ==
    \A c \in Callers :
        (Returned(c) /\ res[c] = "ok" /\ DidTag(c, "acked")) => applied[c]

\* the callers whose switch has moved the launcher index
Movers == {c \in Callers : DidTag(c, "index")}

\* C4: switches are serialized by the mutex with no lost update: a switch
\* about to write holds the values it read under the lock, and after any
\* number of forward switches of step 1 from index i over a non-empty launch
\* list, the index is min(i + N, len - 1), N the number of switches that have
\* moved it.
C4_SwitchesSerialized ==
    /\ \A c \in Callers :
        pc[c] = "s_write" =>
            /\ lock = c
            /\ loc[c].sel = latest.selected
            /\ loc[c].exec_len = Len(latest.execs)
    /\ (/\ IsSome(entered)
        /\ Len(latest.execs) > 0
        /\ \A c \in Movers : ~cmd[c].reverse /\ cmd[c].offset = 1) =>
            latest.selected =
                Some(Min(Unwrap(entered) + Cardinality(Movers),
                         Len(latest.execs) - 1))

\* two forward switches in flight together: one has moved the index and is
\* still in its hand-off, the other holds the lock and has read the moved
\* index
C4_Witness ==
    \E c, d \in Callers :
        /\ c # d
        /\ ~cmd[c].reverse /\ ~cmd[d].reverse
        /\ DidTag(c, "index") /\ InHandOff(c)
        /\ pc[d] = "s_write"
        /\ IsSome(entered)
        /\ loc[d].sel = Some(Unwrap(entered) + 1)
        /\ loc[d].exec_len > Unwrap(entered) + 2

\* the launcher index a switch must produce
Clamped(old, reverse, step, len) ==
    IF reverse THEN Max(old - step, 0) ELSE Min(old + step, len - 1)

\* C5: in launcher sub-mode with a non-empty launch list every switch moves
\* the index to min(index + step, len - 1) or max(index - step, 0), and the
\* selection, when present, is an index in [0, len - 1].
C5_LauncherIndexClamped ==
    /\ \A c \in Callers : \A i \in 1..Len(log[c]) :
        log[c][i][1] = "index" =>
            log[c][i][3] = Clamped(log[c][i][2], cmd[c].reverse, cmd[c].offset,
                                   Len(latest.execs))
    /\ (IsSome(latest.selected) /\ Len(latest.execs) > 0) =>
            Unwrap(latest.selected) \in 0..(Len(latest.execs) - 1)

\* a forward switch whose step led past the end of the launch list and
\* was clamped at len - 1
C5_Witness ==
    \E c \in Callers : \E i \in 1..Len(log[c]) :
        /\ log[c][i][1] = "index"
        /\ ~cmd[c].reverse
        /\ log[c][i][2] + cmd[c].offset > Len(latest.execs) - 1
        /\ log[c][i][3] = Len(latest.execs) - 1
        /\ Len(latest.execs) > 1

\* C6: a switch in launcher sub-mode with an empty launch list returns success
\* at once: the shared data, the flag, the submap and both channels are
\* unchanged and nothing is sent.
C6_EmptyLauncherNoOp ==
    [][\A c \in Callers :
        (/\ pc[c] = "s_write"
         /\ pc'[c] # "s_write"
         /\ IsSome(latest.selected)
         /\ Len(latest.execs) = 0) =>
            /\ latest' = latest
            /\ chan' = chan
            /\ acks' = acks
            /\ ACTIVE' = ACTIVE
            /\ submap' = submap
            /\ log'[c] = log[c]
            /\ pc'[c] = "idle"
            /\ res'[c] = "ok"]_vars

\* a switch has returned success without any effect, the launch list empty
C6_Witness ==
    \E c \in Callers :
        /\ IsCmd(c, "switch")
        /\ Returned(c) /\ res[c] = "ok"
        /\ log[c] = <<>>
        /\ IsSome(latest.selected)
        /\ Len(latest.execs) = 0
        /\ chan = <<>>

\* the component of the active triple a switch type selects
Component(switch_type, triple) ==
    triple[CASE switch_type = "Client" -> 1
             [] switch_type = "Workspace" -> 2
             [] switch_type = "Monitor" -> 3]

\* C7: init stores as `active` the component of the collected triple that
\* config.switch_type selects, tagged with that type, and Unknown when that
\* component is absent; the other two components play no part.
C7_InitProjectsActive ==
    [][\A c \in Callers :
        (pc[c] = "i_store" /\ pc'[c] # "i_store") =>
            LET comp == Component(cmd[c].switch_type, loc[c].triple) IN
            /\ pc'[c] = "i_submap"
            /\ latest'.active =
                    IF comp = None THEN Unknown
                    ELSE [tag |-> cmd[c].switch_type, id |-> comp[1]]]_vars

\* an init for workspaces has returned success with the active workspace
\* absent, and `active` is Unknown
C7_Witness ==
    \E c \in Callers :
        /\ IsCmd(c, "init")
        /\ cmd[c].switch_type = "Workspace"
        /\ Returned(c) /\ res[c] = "ok"
        /\ latest.active = Unknown
        /\ latest.simple_config = "Workspace"

\* C8: a Close with kill = true that has returned invoked neither
\* switch_to_active nor run_program, and performed the teardown.
C8_KillSkipsCommitOnly ==
    \A c \in Callers :
        (IsCmd(c, "close") /\ cmd[c].kill /\ Returned(c)) =>
            /\ ~DidTag(c, "switch_to_active")
            /\ ~DidTag(c, "run_program")
            /\ TornDown(c)

\* C9: the step of init that stores the new session leaves no launcher
\* selection behind.
C9_InitDiscardsLauncherSelection ==
    [][\A c \in Callers :
        (pc[c] = "i_store" /\ pc'[c] # "i_store") =>
            latest'.selected = None]_vars

\* C10: after an Init that returned an error the flag is false and the
\* keybinding is not held. (One caller: nothing else touches the flag or the
\* submap before the next command.)
C10_FailedInitLeavesIdle ==
    \A c \in Callers :
        (IsCmd(c, "init") /\ Returned(c) /\ res[c] = "err") =>
            (~ACTIVE /\ ~submap)

\* C11: a keybinding failure does not end the command: an Init whose
\* activate_submap failed has still set the flag, handed off New and returned
\* success; a Close whose deactivate_submap failed has still cleared the
\* flag, handed off Hide, consumed the acknowledgement and returned success.
\* (The overlay actor still running, so the hand-off itself cannot fail.)
C11_KeybindingFailureRecoverable ==
    \A c \in Callers :
        /\ (Returned(c) /\ gui_open /\ Did(c, <<"activate_submap_err">>)) =>
                /\ Did(c, <<"ACTIVE", TRUE>>)
                /\ Did(c, <<"sent", "New">>)
                /\ res[c] = "ok"
        /\ (Returned(c) /\ gui_open /\ Did(c, <<"deactivate_submap_err">>)) =>
                /\ Did(c, <<"ACTIVE", FALSE>>)
                /\ Did(c, <<"sent", "Hide">>)
                /\ Did(c, <<"acked">>)
                /\ res[c] = "ok"

\* C12: the keybinding is never acquired while it is already held, and only
\* init acquires it and only close releases it: a step that calls
\* activate_submap starts with the submap not active, a step that makes it
\* active is init's, a step that ends it is close's.
C12_KeybindingHeldOnce ==
    [][/\ \A c \in Callers :
            (~DidTag(c, "activate_submap") /\ DidTag(c, "activate_submap")') =>
                ~submap
       /\ (submap' /\ ~submap) =>
            \E c \in Callers : IsCmd(c, "init") /\ pc[c] = "i_submap"
       /\ (submap /\ ~submap') =>
            \E c \in Callers : IsCmd(c, "close") /\ pc[c] = "c_submap"]_vars

\* the position of the first effect tagged t in c's log, 0 when there is none
FirstAt(c, t) ==
    IF DidTag(c, t)
    THEN CHOOSE i \in 1..Len(log[c]) :
            /\ log[c][i][1] = t
            /\ \A j \in 1..(i - 1) : log[c][j][1] # t
    ELSE 0

\* C13: every Close that has returned, whatever kill is and whatever failed,
\* has called clear_recent_clients and reload_desktop_maps, and called them
\* after handing off Hide.
C13_CloseAlwaysCleansUp ==
    \A c \in Callers :
        (IsCmd(c, "close") /\ Returned(c)) =>
            /\ Did(c, <<"clear_recent_clients">>)
            /\ Did(c, <<"reload_desktop_maps">>)
            /\ Did(c, <<"sent", "Hide">>)
            /\ FirstAt(c, "sent") < FirstAt(c, "clear_recent_clients")
            /\ FirstAt(c, "sent") < FirstAt(c, "reload_desktop_maps")

\* C14: no command holds the mutex while it is at its send or receive step:
\* there the mutex is free or held by another command.
C14_NoLockAcrossHandOff ==
    \A c \in Callers : InHandOff(c) => lock # c

\* a command is blocked in its hand-off while another command holds the
\* mutex
C14_Witness ==
    \E c, d \in Callers :
        /\ c # d
        /\ pc[c] \in {"s_recv", "c_recv", "i_recv"}
        /\ acks = 0
        /\ lock = d

\* caller c's handler takes a step
Steps(c) == pc[c] # "idle" /\ pc'[c] # pc[c]

\* the configuration and the snapshot stored by init
Session(l) == <<l.simple_config, l.gui_config, l.hypr_data>>

\* C15: no step of switch or close changes simple_config, gui_config or
\* hypr_data, which change only when init stores a new session; no step of
\* close changes `active` or the launcher selection.
C15_SwitchCloseKeepSession ==
    [][/\ \A c \in Callers :
            (Steps(c) /\ (IsCmd(c, "switch") \/ IsCmd(c, "close"))) =>
                Session(latest') = Session(latest)
       /\ \A c \in Callers :
            (Steps(c) /\ IsCmd(c, "close")) =>
                /\ latest'.active = latest.active
                /\ latest'.selected = latest.selected
       /\ Session(latest') # Session(latest) =>
            \E c \in Callers : IsCmd(c, "init") /\ pc[c] = "i_store"]_vars

\* after an init, a close has launched the selected program and returned,
\* and the session's data and the selection are still there
C15_Witness ==
    \E c \in Callers :
        /\ IsCmd(c, "close")
        /\ Returned(c) /\ res[c] = "ok"
        /\ DidTag(c, "run_program")
        /\ IsSome(latest.selected)
        /\ Session(latest) = <<"Client", "g1", "d1">>
        /\ latest.active # Unknown

\* C16: a Close with kill = false performs exactly one commit action, decided
\* by the launcher selection: present and in range, run_program once with
\* that entry and no switch_to_active; present and out of range, neither,
\* and the Close goes on to return success with the full teardown; absent,
\* switch_to_active once with the current `active` and no run_program.
C16_CloseCommitsExactlyOne ==
    [][\A c \in Callers :
        /\ (pc[c] = "c_commit" /\ pc'[c] # "c_commit" /\ ~cmd[c].kill) =>
            IF IsSome(latest.selected)
            THEN IF Unwrap(latest.selected) < Len(latest.execs)
                 THEN log'[c] = Append(log[c],
                        <<"run_program",
                          latest.execs[Unwrap(latest.selected) + 1]>>)
                 ELSE /\ log'[c] = Append(log[c], <<"warn">>)
                      /\ pc'[c] = "c_submap"
            ELSE log'[c] = Append(log[c], <<"switch_to_active", latest.active>>)
        /\ (/\ IsCmd(c, "close") /\ Steps(c) /\ pc'[c] = "idle"
            /\ Did(c, <<"warn">>)) =>
                /\ res'[c] = "ok"
                /\ TornDown(c)'
                /\ Count(c, "run_program")' = 0
                /\ Count(c, "switch_to_active")' = 0]_vars

\* C17: an Init whose collect_data fails returns an error having touched
\* nothing: the shared data, the flag, the submap and both channels are as
\* they were, and it has called nothing and sent nothing.
C17_FailedCollectTouchesNothing ==
    [][\A c \in Callers :
        (/\ pc[c] = "idle" /\ pc'[c] = "idle"
         /\ cmd'[c] # cmd[c] /\ cmd'[c].kind = "init") =>
            /\ res'[c] = "err"
            /\ log'[c] = <<>>
            /\ UNCHANGED <<latest, lock, ACTIVE, submap, chan, acks>>]_vars

\* an Init failed in collect_data while a session was open, and the session
\* is still open
C17_Witness ==
    \E c \in Callers :
        /\ IsCmd(c, "init")
        /\ Returned(c) /\ res[c] = "err"
        /\ log[c] = <<>>
        /\ ACTIVE /\ submap
        /\ latest.active # Unknown
        /\ chan = <<>>

\* C18: a switch moves exactly one of the two selections. With a launcher
\* selection present it changes at most that index, leaves `active` alone
\* and does not call find_next; with none it sets `active` to what find_next
\* returned (or, find_next failing, changes nothing) and the selection stays
\* absent. No step of a switch changes the flag or the submap.
C18_SwitchMovesOneSelection ==
    [][\A c \in Callers :
        /\ (pc[c] = "s_write" /\ pc'[c] # "s_write") =>
            IF IsSome(latest.selected)
            THEN /\ latest' = [latest EXCEPT !.selected = latest'.selected]
                 /\ IsSome(latest'.selected)
                 /\ ~DidTag(c, "find_next")'
                 /\ ~DidTag(c, "find_next_err")'
            ELSE /\ latest' = [latest EXCEPT !.active = latest'.active]
                 /\ \/ log'[c] = Append(log[c], <<"find_next", latest'.active>>)
                    \/ /\ log'[c] = Append(log[c], <<"find_next_err">>)
                       /\ latest' = latest
                       /\ res'[c] = "err"
                 /\ ~DidTag(c, "index")'
        /\ (Steps(c) /\ IsCmd(c, "switch")) =>
            (ACTIVE' = ACTIVE /\ submap' = submap)]_vars

\* in an open session a switch has moved the launcher index and returned,
\* and `active` is still what init stored
C18_Witness ==
    \E c \in Callers : \E i \in 1..Len(log[c]) :
        /\ IsCmd(c, "switch")
        /\ Returned(c) /\ res[c] = "ok"
        /\ log[c][i][1] = "index"
        /\ log[c][i][2] # log[c][i][3]
        /\ latest.active = MkActive("Client", 42)
        /\ ACTIVE /\ submap

\* C19: once a concurrent Init and Close have both returned success, with no
\* other command about, the flag is true exactly when the submap is active.
C19_FlagMatchesKeybinding ==
    (/\ \E c, d \in Callers :
            /\ IsCmd(c, "init") /\ Returned(c) /\ res[c] = "ok"
            /\ IsCmd(d, "close") /\ Returned(d) /\ res[d] = "ok"
     /\ \A c \in Callers :
            /\ pc[c] = "idle"
            /\ cmd[c].kind \in {"init", "close", "none"}
            /\ res[c] \in {"ok", "none"}) =>
        (ACTIVE <=> submap)

\* C20: with a fair overlay actor and no collaborator failing, every Init,
\* Switch and Close issued by concurrent callers eventually returns.
C20_EveryCommandReturns ==
    \A c \in Callers : (pc[c] # "idle") ~> (pc[c] = "idle")

\* one command waits for its acknowledgement with its event still in the
\* full hand-off channel while another is blocked sending
C20_Witness ==
    \E c, d \in Callers :
        /\ c # d
        /\ pc[c] \in {"s_recv", "c_recv", "i_recv"}
        /\ pc[d] \in {"s_send", "c_send", "i_send"}
        /\ Len(chan) = ChanCap
        /\ acks = 0

====
